---- MODULE Spec2Model ----
(***************************************************************************)
(* Model of the brand-mention checker page (src/src/app/page.tsx): the     *)
(* React state of the Home component, the asynchronous runCheck handler    *)
(* cut at its two await points, and the Reset / Clear buttons.             *)
(*                                                                         *)
(* Text typed by the user (prompt, brand) is a sequence of one-character   *)
(* strings, so that trim() is computed.  Messages shown in the banner are  *)
(* TLA+ strings.  JavaScript values of the response body are tagged        *)
(* records (Undefined, Null, Bool, Num, Str, Obj).                         *)
(***************************************************************************)
EXTENDS Integers, Sequences, FiniteSets, TLC

VARIABLES
    prompt,     \* useState("")   line 13
    brand,      \* useState("")   line 14
    results,    \* useState([])   line 15, newest first
    error,      \* useState("")   line 16, the banner
    loading,    \* useState(false) line 17, the StatusFlag
    calls,      \* runCheck invocations suspended at an await (lines 34, 40)
    tally,      \* history: validated checks settled since the last Clear:
                \*   value = res.json() gave a value other than null,
                \*   threw = an exception reached the catch clause
    last        \* history: the handler that ran last, with its inputs

vars == <<prompt, brand, results, error, loading, calls, tally, last>>

-----------------------------------------------------------------------------
(* Bounds *)

\* validated checks submitted per ledger generation (settled + in flight)
MaxChecks == 2

-----------------------------------------------------------------------------
(* JavaScript values *)

Undefined == [t |-> "undefined"]
Null      == [t |-> "null"]
Bool(b)   == [t |-> "boolean", b |-> b]
Num(n)    == [t |-> "number", n |-> n]
Str(s)    == [t |-> "string", s |-> s]
Obj(m, p, e) == [t |-> "object", mentioned |-> m, position |-> p, error |-> e]

\* a body that also echoes a prompt
ObjEcho(m, p, e, q) ==
    [t |-> "object", mentioned |-> m, position |-> p, error |-> e, prompt |-> q]

\* a ?? b
Coalesce(a, b) == IF a = Undefined \/ a = Null THEN b ELSE a

\* faulty variant: v === true
ToBooleanStrict(v) == v = Bool(TRUE)

\* Boolean(v), also the test of `if (v)`
ToBoolean(v) ==
    CASE v.t = "undefined" -> FALSE
      [] v.t = "null"      -> FALSE
      [] v.t = "boolean"   -> v.b
      [] v.t = "number"    -> v.n # 0
      [] v.t = "string"    -> v.s # ""
      [] OTHER             -> TRUE

\* data.<name>: a property read throws on null and undefined, gives
\* undefined on a primitive, and the field (or undefined) on an object
ReadThrows(data) == data = Null \/ data = Undefined

Field(data, name) ==
    IF data.t = "object" /\ name \in DOMAIN data THEN data[name] ELSE Undefined

-----------------------------------------------------------------------------
(* String.prototype.trim on a sequence of characters *)

IsSpace(c) == c \in {" ", "\t", "\n"}

RECURSIVE TrimStart(_)
TrimStart(s) ==
    IF s # <<>> /\ IsSpace(Head(s)) THEN TrimStart(Tail(s)) ELSE s

RECURSIVE TrimEnd(_)
TrimEnd(s) ==
    IF s # <<>> /\ IsSpace(s[Len(s)]) THEN TrimEnd(SubSeq(s, 1, Len(s) - 1)) ELSE s

Trim(s) == TrimEnd(TrimStart(s))

-----------------------------------------------------------------------------
(* Inputs of the environment *)

\* what the user can type into the prompt textarea and the brand input
PromptInputs == {<<" ">>, <<"a">>, <<" ", "b">>}
BrandInputs  == {<<" ">>, <<"N">>}

\* HTTP status codes of the response; res.ok is 200..299
Statuses == {200, 404, 500}
Ok(status) == status >= 200 /\ status <= 299

\* values res.json() can resolve to
Bodies ==
    { Obj(Bool(TRUE), Num(3), Undefined),
      Obj(Bool(TRUE), Num(0), Undefined),
      Obj(Undefined, Undefined, Str("rate limited")),
      Obj(Undefined, Undefined, Str("")),
      Obj(Undefined, Undefined, Undefined),
      ObjEcho(Bool(TRUE), Num(3), Undefined, Str(<<"z">>)),
      Null,
      Num(7) }

\* values a rejected fetch() hands to the catch clause
FetchFailures == { [message |-> Str("Failed to fetch")], [message |-> Undefined] }

\* the SyntaxError of a body that is not JSON
JsonFailures == { [message |-> Str("Unexpected end of JSON input")] }

\* the TypeError of reading a property of null
NullReadError == [message |-> Str("Cannot read properties of null")]

-----------------------------------------------------------------------------
(* Messages *)

InvalidInputMessage == "Please enter both a prompt and a brand name."

ConnectMessage ==
    "Unable to connect to backend. Make sure it's running on port 3001."

\* faulty variant: the status code is not interpolated
StatusMessageFixed(status) == "Backend returned status 500"

StatusMessage(status) == "Backend returned status " \o ToString(status)

\* faulty variant: the catch clause ignores the failure's own message
CatchMessageDefault(err) == ConnectMessage

\* (err as Error)?.message ?? "Unable to connect ..."
CatchMessage(err) == Coalesce(err.message, Str(ConnectMessage)).s

-----------------------------------------------------------------------------
(* Initial state: the useState initial values *)

Init ==
    /\ prompt = <<>>
    /\ brand = <<>>
    /\ results = <<>>
    /\ error = ""
    /\ loading = FALSE
    /\ calls = <<>>
    /\ tally = [value |-> 0, threw |-> 0]
    /\ last = [op |-> "init"]

-----------------------------------------------------------------------------
(* Form fields *)

SetPrompt(v) ==
    /\ prompt' = v
    /\ last' = [op |-> "form"]
    /\ UNCHANGED <<brand, results, error, loading, calls, tally>>

SetBrand(v) ==
    /\ brand' = v
    /\ last' = [op |-> "form"]
    /\ UNCHANGED <<prompt, results, error, loading, calls, tally>>

Reset ==
    /\ prompt' = <<>>
    /\ brand' = <<>>
    /\ last' = [op |-> "form"]
    /\ UNCHANGED <<results, error, loading, calls, tally>>

-----------------------------------------------------------------------------
(* runCheck, lines 19-63 *)

\* faulty variant: the button is not disabled while loading
RunAlwaysEnabled == TRUE

\* the Run check button is disabled while loading (line 143)
RunEnabled == ~loading

\* faulty variant: !prompt || !brand, without trim()
InvalidUntrimmed(p, b) == p = <<>> \/ b = <<>>

\* !prompt.trim() || !brand.trim()   (line 22)
Invalid(p, b) == Trim(p) = <<>> \/ Trim(b) = <<>>

\* the values the handler's closure holds, and where the handler is suspended
NewCall ==
    [ prompt  |-> prompt,
      brand   |-> brand,
      results |-> results,
      stage   |-> "fetch",
      status  |-> 0,
      cleared |-> FALSE ]

\* faulty variant: line 20 is missing, the banner is not cleared on submit
RunCheckKeepBanner ==
    /\ RunEnabled
    /\ IF Invalid(prompt, brand)
       THEN /\ error' = InvalidInputMessage
            /\ last' = [op |-> "runCheck", valid |-> FALSE]
            /\ UNCHANGED <<loading, calls>>
       ELSE /\ tally.value + tally.threw + Len(calls) < MaxChecks
            /\ error' = error
            /\ loading' = TRUE
            /\ calls' = Append(calls, NewCall)
            /\ last' = [op |-> "runCheck", valid |-> TRUE]
    /\ UNCHANGED <<prompt, brand, results, tally>>

\* lines 19-38: the synchronous part of a click on Run check
RunCheck ==
    /\ RunEnabled
    /\ IF Invalid(prompt, brand)
       THEN /\ error' = InvalidInputMessage
            /\ last' = [op |-> "runCheck", valid |-> FALSE]
            /\ UNCHANGED <<loading, calls>>
       ELSE /\ tally.value + tally.threw + Len(calls) < MaxChecks
            /\ error' = ""
            /\ loading' = TRUE
            /\ calls' = Append(calls, NewCall)
            /\ last' = [op |-> "runCheck", valid |-> TRUE]
    /\ UNCHANGED <<prompt, brand, results, tally>>

RemoveAt(s, i) == SubSeq(s, 1, i - 1) \o SubSeq(s, i + 1, Len(s))

\* line 34 resumes with a response; line 40 starts reading its body
FetchResolve(i, status) ==
    /\ i \in DOMAIN calls
    /\ calls[i].stage = "fetch"
    /\ calls' = [calls EXCEPT ![i].stage = "json", ![i].status = status]
    /\ last' = [op |-> "fetchResolve", call |-> calls[i]]
    /\ UNCHANGED <<prompt, brand, results, error, loading, tally>>

\* faulty variant: setLoading(false) at the end of the try block, no finally
CaughtNoFinally(i, err, op) ==
    /\ error' = CatchMessage(err)
    /\ calls' = RemoveAt(calls, i)
    /\ tally' = [tally EXCEPT !.threw = @ + 1]
    /\ last' = [op |-> op, call |-> calls[i], err |-> err]
    /\ UNCHANGED <<prompt, brand, results, loading>>

\* lines 55-62: catch, then finally
Caught(i, err, op) ==
    /\ error' = CatchMessage(err)
    /\ loading' = FALSE
    /\ calls' = RemoveAt(calls, i)
    /\ tally' = [tally EXCEPT !.threw = @ + 1]
    /\ last' = [op |-> op, call |-> calls[i], err |-> err]
    /\ UNCHANGED <<prompt, brand, results>>

\* line 34 throws: the endpoint could not be reached
FetchReject(i, err) ==
    /\ i \in DOMAIN calls
    /\ calls[i].stage = "fetch"
    /\ Caught(i, err, "fetchReject")

\* line 40 throws: the body is not JSON
JsonReject(i, err) ==
    /\ i \in DOMAIN calls
    /\ calls[i].stage = "json"
    /\ Caught(i, err, "jsonReject")

\* faulty variant: position: data.position || null
BuildItemOr(call, data) ==
    [ prompt    |-> call.prompt,
      mentioned |-> ToBoolean(Field(data, "mentioned")),
      position  |-> IF ToBoolean(Field(data, "position"))
                    THEN Field(data, "position") ELSE Null,
      error     |-> Field(data, "error") ]

\* faulty variant: position: data.position, without ?? null
BuildItemRawPosition(call, data) ==
    [ prompt    |-> call.prompt,
      mentioned |-> ToBoolean(Field(data, "mentioned")),
      position  |-> Field(data, "position"),
      error     |-> Field(data, "error") ]

\* faulty variant: the prompt is read from the form when the call settles
BuildItemCurrentPrompt(call, data) ==
    [ prompt    |-> prompt,
      mentioned |-> ToBoolean(Field(data, "mentioned")),
      position  |-> Coalesce(Field(data, "position"), Null),
      error     |-> Field(data, "error") ]

\* lines 46-51
BuildItem(call, data) ==
    [ prompt    |-> call.prompt,
      mentioned |-> ToBoolean(Field(data, "mentioned")),
      position  |-> Coalesce(Field(data, "position"), Null),
      error     |-> Field(data, "error") ]

\* faulty variant: (prev) => [...prev, item]
AppendLast(item, prev) == prev \o <<item>>

\* faulty variant: setResults([item])
OnlyItem(item, prev) == <<item>>

\* (prev) => [item, ...prev]   (line 53)
Prepend(item, prev) == <<item>> \o prev

\* faulty variant: setResults([item, ...results]) on the ledger the closure captured
ResultsAfterStale(item, call) == <<item>> \o call.results

\* setResults with a functional updater: prev is the ledger when the call settles
ResultsAfter(item, call) == Prepend(item, results)

\* faulty variant: data.error || `Backend returned status ...` on line 43
BannerAfterOr(status, data, cur) ==
    LET e == Field(data, "error") IN
    IF ToBoolean(e) THEN e.s
    ELSE IF ~Ok(status) THEN StatusMessage(status)
    ELSE cur

\* faulty variant: line 54 is missing
BannerAfterStatusOnly(status, data, cur) ==
    IF ~Ok(status)
    THEN Coalesce(Field(data, "error"), Str(StatusMessage(status))).s
    ELSE cur

\* the banner after lines 42-44 and 54; cur is the banner when the call settles
BannerAfter(status, data, cur) ==
    LET e == Field(data, "error") IN
    IF ToBoolean(e) THEN e.s
    ELSE IF ~Ok(status) THEN Coalesce(e, Str(StatusMessage(status))).s
    ELSE cur

\* lines 40-54 and 61 with a body that parsed
JsonResolve(i, data) ==
    /\ i \in DOMAIN calls
    /\ calls[i].stage = "json"
    /\ IF ReadThrows(data)
       THEN Caught(i, NullReadError, "jsonResolve")
       ELSE /\ results' = ResultsAfter(BuildItem(calls[i], data), calls[i])
            /\ error' = BannerAfter(calls[i].status, data, error)
            /\ loading' = FALSE
            /\ calls' = RemoveAt(calls, i)
            /\ tally' = [tally EXCEPT !.value = @ + 1]
            /\ last' = [op |-> "jsonResolve", call |-> calls[i], data |-> data]
            /\ UNCHANGED <<prompt, brand>>

-----------------------------------------------------------------------------
(* Clear button, lines 197-203 *)

ClearHistory ==
    /\ Len(results) # 0
    /\ results' = <<>>
    /\ calls' = [i \in DOMAIN calls |-> [calls[i] EXCEPT !.cleared = TRUE]]
    /\ tally' = [value |-> 0, threw |-> 0]
    /\ last' = [op |-> "clear"]
    /\ UNCHANGED <<prompt, brand, error, loading>>

-----------------------------------------------------------------------------
(* CSV export, lines 65-93.  The file's text is a sequence of characters. *)

DigitChars == <<"0", "1", "2", "3", "4", "5", "6", "7", "8", "9">>

\* String(n) of a non-negative integer
RECURSIVE NumberChars(_)
NumberChars(n) ==
    IF n < 10 THEN <<DigitChars[n + 1]>>
    ELSE NumberChars(n \div 10) \o <<DigitChars[(n % 10) + 1]>>

\* String(value)   (line 67); the s of a string is its characters here
StringOf(v) ==
    CASE v.t = "string"  -> v.s
      [] v.t = "boolean" -> IF v.b THEN <<"t", "r", "u", "e">>
                                   ELSE <<"f", "a", "l", "s", "e">>
      [] v.t = "number"  -> NumberChars(v.n)

\* str.replace(/"/g, '""')   (line 68)
RECURSIVE DoubleQuotes(_)
DoubleQuotes(s) ==
    IF s = <<>> THEN <<>>
    ELSE (IF Head(s) = "\"" THEN <<"\"", "\"">> ELSE <<Head(s)>>)
         \o DoubleQuotes(Tail(s))

\* faulty variant: null and undefined become the quoted empty field
EscapeCSVQuotedNull(value) ==
    IF value = Null \/ value = Undefined THEN <<"\"", "\"">>
    ELSE <<"\"">> \o DoubleQuotes(StringOf(value)) \o <<"\"">>

\* faulty variant: the escaped text is returned without the enclosing quotes
EscapeCSVUnquoted(value) ==
    IF value = Null \/ value = Undefined THEN <<>>
    ELSE DoubleQuotes(StringOf(value))

\* faulty variant: embedded quotes are not doubled
EscapeCSVNoDoubling(value) ==
    IF value = Null \/ value = Undefined THEN <<>>
    ELSE <<"\"">> \o StringOf(value) \o <<"\"">>

\* escapeCSV, lines 65-70
EscapeCSV(value) ==
    IF value = Null \/ value = Undefined THEN <<>>
    ELSE <<"\"">> \o DoubleQuotes(StringOf(value)) \o <<"\"">>

\* ["prompt", "mentioned", "position"].join(",") + "\n"   (line 73)
Header ==
    << "p", "r", "o", "m", "p", "t", ",",
       "m", "e", "n", "t", "i", "o", "n", "e", "d", ",",
       "p", "o", "s", "i", "t", "i", "o", "n", "\n" >>

\* faulty variant: the error column is exported too
RowWithError(r) ==
    EscapeCSV(Str(r.prompt)) \o <<",">> \o EscapeCSV(Bool(r.mentioned))
        \o <<",">> \o EscapeCSV(r.position) \o <<",">> \o EscapeCSV(r.error)

\* the template of lines 77-79
Row(r) ==
    EscapeCSV(Str(r.prompt)) \o <<",">> \o EscapeCSV(Bool(r.mentioned))
        \o <<",">> \o EscapeCSV(r.position)

\* rows.join("\n")   (line 81)
RECURSIVE JoinLines(_)
JoinLines(rows) ==
    IF rows = <<>> THEN <<>>
    ELSE IF Len(rows) = 1 THEN rows[1]
    ELSE rows[1] \o <<"\n">> \o JoinLines(Tail(rows))

\* header + rows, the content of the Blob (lines 73-83)
ToCSV(rs) == Header \o JoinLines([i \in DOMAIN rs |-> Row(rs[i])])

\* Download CSV button (lines 205-211): disabled on an empty ledger; the
\* file leaves the page, no state of the component changes
DownloadCSV ==
    /\ Len(results) # 0
    /\ last' = [op |-> "download", csv |-> ToCSV(results)]
    /\ UNCHANGED <<prompt, brand, results, error, loading, calls, tally>>

-----------------------------------------------------------------------------

Next ==
    \/ \E v \in PromptInputs : SetPrompt(v)
    \/ \E v \in BrandInputs : SetBrand(v)
    \/ Reset
    \/ RunCheck
    \/ \E i \in DOMAIN calls, s \in Statuses : FetchResolve(i, s)
    \/ \E i \in DOMAIN calls, e \in FetchFailures : FetchReject(i, e)
    \/ \E i \in DOMAIN calls, d \in Bodies : JsonResolve(i, d)
    \/ \E i \in DOMAIN calls, e \in JsonFailures : JsonReject(i, e)
    \/ ClearHistory
    \/ DownloadCSV

Spec == Init /\ [][Next]_vars

\* the call that is made settles: the response or the failure arrives
Settle ==
    \/ \E i \in DOMAIN calls, s \in Statuses : FetchResolve(i, s)
    \/ \E i \in DOMAIN calls, e \in FetchFailures : FetchReject(i, e)
    \/ \E i \in DOMAIN calls, d \in Bodies : JsonResolve(i, d)
    \/ \E i \in DOMAIN calls, e \in JsonFailures : JsonReject(i, e)

FairSpec == Spec /\ WF_vars(Settle)

-----------------------------------------------------------------------------
(* The normalisation of lines 46-51 over a wide range of response bodies:  *)
(* one validated check is waiting for res.json(), which gives any of them. *)

MentionedValues ==
    { Undefined, Null, Bool(TRUE), Bool(FALSE), Num(0), Num(1), Str(""), Str("yes") }

PositionValues == { Undefined, Null, Num(0), Num(3), Str(""), Bool(FALSE) }

NormBodies ==
    { Obj(m, p, e) : m \in MentionedValues, p \in PositionValues,
                     e \in {Undefined, Str("rate limited")} }
    \cup { Null, Num(7) }

NormInit ==
    /\ prompt \in {<<"a">>, <<" ", "b">>}
    /\ brand = <<"N">>
    /\ results = <<>>
    /\ error = ""
    /\ loading = TRUE
    /\ \E s \in Statuses :
           calls = << [NewCall EXCEPT !.stage = "json", !.status = s] >>
    /\ tally = [value |-> 0, threw |-> 0]
    /\ last = [op |-> "fetchResolve", call |-> [calls[1] EXCEPT !.stage = "fetch", !.status = 0]]

NormNext == \E d \in NormBodies : JsonResolve(1, d)

NormSpec == NormInit /\ [][NormNext]_vars

-----------------------------------------------------------------------------
(* The export of lines 65-83 over ledgers whose prompts hold commas, double *)
(* quotes and line breaks.                                                  *)

HeSaidHi == <<"H", "e", " ", "s", "a", "i", "d", " ", "\"", "h", "i", "\"">>

CsvPrompts ==
    { <<"a">>, <<"a", ",", "b">>, <<"a", "\n", "b">>, <<" ", "\"">>, HeSaidHi }

CsvRecords ==
    { [prompt |-> q, mentioned |-> x[1], position |-> x[2], error |-> x[3]] :
        q \in CsvPrompts,
        x \in { <<TRUE, Num(12), Undefined>>,
                <<TRUE, Num(0), Undefined>>,
                <<FALSE, Null, Undefined>>,
                <<FALSE, Null, Str(<<"e", ",", "r">>)>> } }

CsvInit ==
    /\ prompt = <<>>
    /\ brand = <<>>
    /\ \E n \in 1..MaxChecks : results \in [1..n -> CsvRecords]
    /\ error = ""
    /\ loading = FALSE
    /\ calls = <<>>
    /\ tally = [value |-> Len(results), threw |-> 0]
    /\ last = [op |-> "init"]

CsvNext == DownloadCSV

CsvSpec == CsvInit /\ [][CsvNext]_vars

-----------------------------------------------------------------------------
(* Properties.  A step of handler h is a step with last'.op = h; the state  *)
(* right after it has last.op = h.                                          *)

\* json() gave a value the handler could read (not null): last holds it
ValueSettled == last.op = "jsonResolve" /\ "data" \in DOMAIN last

\* C1: a run-check submission whose prompt or brand trims to the empty string
\* sets the banner to the input message, leaves the ledger unchanged, starts
\* no call, and the flag is idle before and after
C1_InvalidSubmitRejected ==
    [][ (last'.op = "runCheck" /\ (Trim(prompt) = <<>> \/ Trim(brand) = <<>>))
        => /\ error' = "Please enter both a prompt and a brand name."
           /\ results' = results
           /\ calls' = calls
           /\ ~loading /\ ~loading' ]_vars

C1_Witness ==
    /\ last.op = "runCheck" /\ ~last.valid
    /\ prompt = <<" ">> /\ brand = <<"N">>
    /\ Len(results) > 0
    /\ error = "Please enter both a prompt and a brand name."

C4_BusyLeadsToIdle ==
    /\ [](last.op = "runCheck" /\ last.valid => loading)
    /\ [](last.op \in {"fetchReject", "jsonResolve", "jsonReject"} => ~loading)
    /\ (loading ~> ~loading)

C4_Witness ==
    /\ last.op = "jsonReject"
    /\ ~loading
    /\ calls = <<>>

\* C5: at most one check is in flight, and the flag is busy exactly when one is
C5_OneCallInFlight ==
    /\ Len(calls) <= 1
    /\ loading <=> Len(calls) = 1

C5_Witness ==
    /\ loading
    /\ Len(calls) = 1 /\ calls[1].stage = "json"
    /\ Len(results) = 1

\* C6: a success status with body {mentioned: true, position: p} puts
\* {prompt as submitted, true, p, undefined} at index 0 in front of the
\* previous entries in their order, and the banner is empty
C6_SuccessRecordPrepended ==
    [][ ( /\ last'.op = "jsonResolve" /\ "data" \in DOMAIN last'
          /\ last'.call.status \in 200..299
          /\ last'.data.t = "object"
          /\ last'.data.mentioned = Bool(TRUE)
          /\ last'.data.position.t = "number"
          /\ last'.data.error = Undefined )
        => /\ results' = << [ prompt |-> last'.call.prompt, mentioned |-> TRUE,
                              position |-> last'.data.position,
                              error |-> Undefined ] >> \o results
           /\ error' = "" ]_vars

C6_Witness ==
    /\ ValueSettled
    /\ last.call.status = 200
    /\ last.data = Obj(Bool(TRUE), Num(0), Undefined)
    /\ Len(results) = 2
    /\ results[1].position = Num(0)
    /\ error = ""

\* C7: a non-success status with a body carrying only an error string e
\* gives ledger[0] mentioned=false, position=null, error=e, and banner e
C7_BackendErrorRecorded ==
    ( /\ ValueSettled
      /\ last.call.status \notin 200..299
      /\ last.data.t = "object"
      /\ last.data.error.t = "string"
      /\ last.data.mentioned = Undefined
      /\ last.data.position = Undefined )
    => /\ Len(results) > 0
       /\ results[1] = [ prompt |-> last.call.prompt, mentioned |-> FALSE,
                         position |-> Null, error |-> last.data.error ]
       /\ error = last.data.error.s

C7_Witness ==
    /\ ValueSettled
    /\ last.call.status = 500
    /\ last.data = Obj(Undefined, Undefined, Str("rate limited"))
    /\ error = "rate limited"
    /\ Len(results) = 2

\* a non-success status with a JSON object body that has no error field
NoErrorFieldFailure ==
    /\ ValueSettled
    /\ last.call.status \notin 200..299
    /\ last.data.t = "object"
    /\ last.data.error = Undefined

\* C8 as stated: then ledger[0] carries the synthesized text as its error,
\* and the banner shows that text
C8_StatusTextInRecord ==
    NoErrorFieldFailure
    => /\ Len(results) > 0
       /\ results[1].prompt = last.call.prompt
       /\ results[1].error = Str("Backend returned status " \o ToString(last.call.status))
       /\ error = "Backend returned status " \o ToString(last.call.status)

\* C8 amended: then a record is prepended whose error field is undefined,
\* and only the banner shows the synthesized text
C8_StatusTextInBannerOnly ==
    NoErrorFieldFailure
    => /\ Len(results) > 0
       /\ results[1].prompt = last.call.prompt
       /\ results[1].error = Undefined
       /\ error = "Backend returned status " \o ToString(last.call.status)

C8_Witness ==
    /\ ValueSettled
    /\ last.call.status = 404
    /\ last.data = Obj(Undefined, Undefined, Undefined)
    /\ error = "Backend returned status 404"
    /\ results[1].error = Undefined

\* C9: every step leaves the ledger unchanged, or puts one new record in
\* front of the unchanged previous entries, or empties it
C9_PrependOrClearOnly ==
    [][ \/ results' = results
        \/ Len(results') = Len(results) + 1 /\ Tail(results') = results
        \/ results' = <<>> ]_vars

C9_Witness ==
    /\ ValueSettled
    /\ Len(results) = 2
    /\ results[1] # results[2]

-----------------------------------------------------------------------------
(* Reading the exported text back *)

\* the pieces of s between the separators; with aware, a separator inside
\* double quotes does not split
RECURSIVE SplitRec(_, _, _, _, _, _)
SplitRec(s, i, sep, aware, inQuotes, cur) ==
    IF i > Len(s) THEN <<cur>>
    ELSE IF s[i] = sep /\ ~(aware /\ inQuotes)
         THEN <<cur>> \o SplitRec(s, i + 1, sep, aware, inQuotes, <<>>)
         ELSE SplitRec(s, i + 1, sep, aware,
                       IF s[i] = "\"" THEN ~inQuotes ELSE inQuotes,
                       Append(cur, s[i]))

SplitQuoted(s, sep) == SplitRec(s, 1, sep, TRUE, FALSE, <<>>)
SplitPlain(s, sep) == SplitRec(s, 1, sep, FALSE, FALSE, <<>>)

IsQuoted(f) == Len(f) >= 2 /\ f[1] = "\"" /\ f[Len(f)] = "\""

RECURSIVE Undouble(_)
Undouble(s) ==
    IF s = <<>> THEN <<>>
    ELSE IF Len(s) >= 2 /\ s[1] = "\"" /\ s[2] = "\""
         THEN <<"\"">> \o Undouble(SubSeq(s, 3, Len(s)))
         ELSE <<s[1]>> \o Undouble(Tail(s))

\* the value of a field: the text between its quotes, "" read as "
FieldValue(f) == IF IsQuoted(f) THEN Undouble(SubSeq(f, 2, Len(f) - 1)) ELSE f

\* the exported file and its data rows, split at line breaks outside quotes
Downloaded == last.op = "download"
CsvLines == SplitQuoted(last.csv, "\n")
CsvFields(i) == SplitQuoted(CsvLines[i + 1], ",")

HeaderLine ==
    << "p", "r", "o", "m", "p", "t", ",",
       "m", "e", "n", "t", "i", "o", "n", "e", "d", ",",
       "p", "o", "s", "i", "t", "i", "o", "n" >>

\* C11 as stated: every field of every data row is wrapped in double quotes,
\* the position field of a null position included
C11_EveryFieldQuoted ==
    Downloaded
    => \A i \in DOMAIN results :
          /\ Len(CsvFields(i)) = 3
          /\ \A k \in 1..3 : IsQuoted(CsvFields(i)[k])

\* C11 amended: every field that holds a value is wrapped in double quotes;
\* the position field of a null position is empty, without quotes
C11_ValueFieldsQuoted ==
    Downloaded
    => \A i \in DOMAIN results :
          /\ Len(CsvFields(i)) = 3
          /\ IsQuoted(CsvFields(i)[1])
          /\ IsQuoted(CsvFields(i)[2])
          /\ IF results[i].position = Null
             THEN CsvFields(i)[3] = <<>>
             ELSE IsQuoted(CsvFields(i)[3])

C11_Witness ==
    /\ Downloaded
    /\ Len(results) = 2
    /\ results[1].position = Null /\ results[2].position = Num(12)
    /\ last.csv[Len(last.csv)] = "\""

\* what reading a row back gives for record r
ReadBack(r) ==
    << r.prompt,
       IF r.mentioned THEN <<"t", "r", "u", "e">> ELSE <<"f", "a", "l", "s", "e">>,
       IF r.position = Null THEN <<>> ELSE NumberChars(r.position.n) >>

RowsReadBack ==
    \A i \in DOMAIN results :
        /\ i + 1 \in DOMAIN CsvLines
        /\ Len(CsvFields(i)) = 3
        /\ [k \in 1..3 |-> FieldValue(CsvFields(i)[k])] = ReadBack(results[i])

\* C12 as stated: the text has N+1 lines, and row i read with quote-aware
\* comma splitting gives back ledger[i]
C12_LinesRoundTrip ==
    Downloaded
    => /\ Len(SplitPlain(last.csv, "\n")) = Len(results) + 1
       /\ RowsReadBack

\* C12 amended: split at the line breaks outside double quotes, the text has
\* N+1 lines, the header and one row per record in ledger order, and row i
\* gives back ledger[i]; a line break inside a prompt stays inside its field
C12_RecordsRoundTrip ==
    Downloaded
    => /\ Len(CsvLines) = Len(results) + 1
       /\ CsvLines[1] = HeaderLine
       /\ RowsReadBack

C12_Witness ==
    /\ Downloaded
    /\ Len(results) = 2
    /\ results[1].prompt = <<"a", "\n", "b">>
    /\ results[2].prompt = <<"a", ",", "b">>
    /\ Len(SplitPlain(last.csv, "\n")) = 4

\* the prompt with every double quote written twice
RECURSIVE QuotesTwice(_)
QuotesTwice(s) ==
    IF s = <<>> THEN <<>>
    ELSE IF Head(s) = "\"" THEN <<"\"", "\"">> \o QuotesTwice(Tail(s))
    ELSE <<Head(s)>> \o QuotesTwice(Tail(s))

\* C13: the exported prompt field is a double quote, the prompt with every
\* double quote doubled and nothing else changed, and a double quote
C13_PromptFieldEscaped ==
    Downloaded
    => \A i \in DOMAIN results :
          CsvFields(i)[1] = <<"\"">> \o QuotesTwice(results[i].prompt) \o <<"\"">>

C13_Witness ==
    /\ Downloaded
    /\ results[1].prompt = HeSaidHi
    /\ CsvFields(1)[1] =
         << "\"", "H", "e", " ", "s", "a", "i", "d", " ",
            "\"", "\"", "h", "i", "\"", "\"", "\"" >>

\* C14: the export is the export of the same ledger with every error field
\* replaced by any other value, and the header has the three columns
C14_ErrorNotExported ==
    Downloaded
    => /\ \A e \in { Undefined, Str(<<"x">>), Str(<<"e", ",", "r">>) } :
             last.csv = ToCSV([i \in DOMAIN results |-> [results[i] EXCEPT !.error = e]])
       /\ SplitPlain(CsvLines[1], ",") =
             << <<"p", "r", "o", "m", "p", "t">>,
                <<"m", "e", "n", "t", "i", "o", "n", "e", "d">>,
                <<"p", "o", "s", "i", "t", "i", "o", "n">> >>

C14_Witness ==
    /\ Downloaded
    /\ Len(results) = 2
    /\ results[1].error # Undefined
    /\ results[2].error = Undefined

-----------------------------------------------------------------------------

\* record r carries an error: a non-empty error text
HasError(r) == r.error.t = "string" /\ r.error.s # ""

\* C15 as stated: when a check settles and prepends its record, the banner
\* is non-empty exactly when ledger[0] carries an error
C15_BannerIffRecordError ==
    ValueSettled => (error # "" <=> HasError(results[1]))

\* C15 amended: the banner is non-empty exactly when ledger[0] carries an
\* error (the banner is that error) or the status is a non-success one and
\* the body has no error value (the banner is the status text, the record
\* carries no error); with a success status and no error it is empty
C15_BannerFromErrorOrStatus ==
    ValueSettled
    => /\ error # "" <=> \/ HasError(results[1])
                         \/ /\ last.call.status \notin 200..299
                            /\ results[1].error \in {Undefined, Null}
       /\ HasError(results[1]) => error = results[1].error.s
       /\ ~HasError(results[1]) /\ error # ""
            => error = "Backend returned status " \o ToString(last.call.status)

C15_Witness ==
    /\ ValueSettled
    /\ last.call.status = 200
    /\ last.data = Obj(Undefined, Undefined, Str("rate limited"))
    /\ error = "rate limited"
    /\ HasError(results[1])

\* C16: while the flag is busy the banner is empty
C16_BusyBannerEmpty == loading => error = ""

C16_Witness ==
    /\ loading
    /\ error = ""
    /\ tally.threw = 1
    /\ last.op = "runCheck" /\ last.valid

\* C17: every ledger entry has its four fields, a prompt that is non-empty
\* after trimming, a boolean mentioned, and a position that is never undefined
C17_EntriesPopulated ==
    \A i \in DOMAIN results :
        /\ DOMAIN results[i] = {"prompt", "mentioned", "position", "error"}
        /\ Trim(results[i].prompt) # <<>>
        /\ results[i].mentioned \in BOOLEAN
        /\ results[i].position # Undefined

C17_Witness ==
    /\ Len(results) = 2
    /\ results[1].position = Null
    /\ results[2].position = Num(0)
    /\ results[1].prompt = <<" ", "b">>

\* C18: the record's prompt is the form's prompt at the click on Run check,
\* whatever the form holds and whatever the body echoes when the call settles
C18_PromptAsSubmitted ==
    [][ (last'.op = "runCheck" /\ last'.valid
            => calls'[Len(calls')].prompt = prompt)
        /\ (last'.op = "jsonResolve" /\ "data" \in DOMAIN last'
            => /\ results'[1].prompt = last'.call.prompt
               /\ \E i \in DOMAIN calls : calls[i] = last'.call) ]_vars

C18_Witness ==
    /\ ValueSettled
    /\ "prompt" \in DOMAIN last.data
    /\ prompt = <<>>
    /\ results[1].prompt = <<" ", "b">>

\* C19: the record's position is the body's position when that is present
\* and neither undefined nor null, 0 included, and null otherwise
C19_PositionKept ==
    ValueSettled
    => results[1].position =
         IF /\ last.data.t = "object"
            /\ last.data.position # Undefined
            /\ last.data.position # Null
         THEN last.data.position
         ELSE Null

C19_Witness ==
    /\ ValueSettled
    /\ last.data.t = "object"
    /\ last.data.position = Num(0)
    /\ results[1].position = Num(0)

\* C20: the record's mentioned is true exactly when the body's mentioned is
\* none of absent, undefined, null, false, 0 and "", whatever the status
C20_MentionedTruthy ==
    ValueSettled
    => results[1].mentioned =
         ( /\ last.data.t = "object"
           /\ last.data.mentioned \notin
                { Undefined, Null, Bool(FALSE), Num(0), Str("") } )

C20_Witness ==
    /\ ValueSettled
    /\ last.call.status = 500
    /\ last.data.t = "object"
    /\ last.data.mentioned = Str("yes")
    /\ results[1].mentioned = TRUE

====
